---- MODULE Spec2Model ----
(***************************************************************************)
(* Model of sysReview.py: the sentence deduplicator, the schema walker     *)
(* (structured_summary), the aggregator (aggregate_reviews) and the        *)
(* "Generate Reviews" batch loop of the Streamlit application.             *)
(*                                                                         *)
(* Python strings are sequences of one-character strings.  A dict is a     *)
(* function whose domain is its key set; a tree node is tagged as a leaf   *)
(* (a string) or a branch (a dict), as isinstance(x, dict) tells them      *)
(* apart in the source.                                                    *)
(***************************************************************************)
EXTENDS Naturals, Sequences, FiniteSets, TLC

VARIABLES
    pc,               \* position of the running handler
    uploaded_files,   \* the uploaded PDFs (st.file_uploader)
    i,                \* index of the document being processed (enumerate)
    text,             \* cleaned text of the current document
    pos,              \* next leaf of the schema walk of structured_summary
    review,           \* structured_summary: review
    sub_sections,     \* structured_summary: sub_sections
    nested_sections,  \* structured_summary: nested_sections
    results,          \* batch loop: results
    calls,            \* invocations of the summarizer pipeline, in order
    report,           \* st.write / st.success / st.error messages, in order
    reviews,          \* argument of aggregate_reviews
    aggregated,       \* value returned by aggregate_reviews(reviews)
    swapped,          \* value returned by aggregate_reviews(reversed reviews)
    summary,          \* argument of remove_repeated_sentences
    deduped,          \* remove_repeated_sentences(summary)
    deduped2          \* remove_repeated_sentences(deduped)

vars == <<pc, uploaded_files, i, text, pos, review, sub_sections, nested_sections,
          results, calls, report, reviews, aggregated, swapped, summary, deduped,
          deduped2>>

(***************************************************************************)
(* Bounds.                                                                 *)
(***************************************************************************)
MaxLen == 7        \* longest input string of the deduplicator
MaxDocs == 3       \* most uploaded documents in one batch
MaxReviews == 2    \* most review trees handed to aggregate_reviews
MaxMissing == 2    \* most schema nodes the input review trees lack in total

(***************************************************************************)
(* Strings.                                                                *)
(***************************************************************************)
Alphabet == {"a", "b", ".", " "}

ToSet(seq) == {seq[k] : k \in 1..Len(seq)}

\* str.find('. ') + 1: the first position of the delimiter, 0 when absent.
FindSep(s) ==
    LET hits == {k \in 1..(Len(s) - 1) : s[k] = "." /\ s[k + 1] = " "}
    IN  IF hits = {} THEN 0 ELSE CHOOSE k \in hits : \A m \in hits : k <= m

RECURSIVE split(_)
\* summary.split('. '): left to right, the pieces between the delimiters;
\* a string without the delimiter (the empty one too) is its only piece.
split(s) ==
    LET k == FindSep(s)
    IN  IF k = 0 THEN <<s>>
        ELSE <<SubSeq(s, 1, k - 1)>> \o split(SubSeq(s, k + 2, Len(s)))

RECURSIVE join(_, _)
\* sep.join(parts)
join(sep, parts) ==
    IF parts = <<>> THEN <<>>
    ELSE IF Len(parts) = 1 THEN parts[1]
    ELSE parts[1] \o sep \o join(sep, Tail(parts))

RECURSIVE Perms(_)
\* The orders in which iterating a Python set can yield its elements.
Perms(S) ==
    IF S = {} THEN {<<>>}
    ELSE UNION {{<<x>> \o p : p \in Perms(S \ {x})} : x \in S}

\* A faulty variant of remove_repeated_sentences: it rejoins with "." alone.
remove_repeated_sentences_dot(s) ==
    {join(<<".">>, p) : p \in Perms(ToSet(split(s)))}

\* remove_repeated_sentences(summary): the strings the call can return.  The
\* iteration order of set(...) depends on the process's string hashing, so
\* every order of the distinct pieces is a possible result.
remove_repeated_sentences(s) ==
    {join(<<".", " ">>, p) : p \in Perms(ToSet(split(s)))}

\* The ". "-delimited sentences of a string, as a set.
Sentences(s) == ToSet(split(s))

(***************************************************************************)
(* Trees.  A dict is a function on its keys.  A node is a string, a list   *)
(* of strings or a dict, tagged with its Python type.                      *)
(***************************************************************************)
Str(s) == [kind |-> "str", val |-> s]

List(l) == [kind |-> "list", items |-> l]

Dict(d) == [kind |-> "dict", kids |-> d]

EmptyDict == [k \in {} |-> Str(<<>>)]

\* d.get(key, default)
Get(d, key, default) == IF key \in DOMAIN d THEN d[key] ELSE default

\* d[key] = value
Put(d, key, value) ==
    [k \in DOMAIN d \cup {key} |-> IF k = key THEN value ELSE d[k]]

\* Entries of a dict literal of prompts, in declaration order.
Prompt(key, prompt) == [key |-> key, leaf |-> TRUE, prompt |-> prompt]

Nested(key, items) == [key |-> key, leaf |-> FALSE, items |-> items]

Methods == "B: Methods"

Criteria == "3. Inclusion and Exclusion Criteria"

\* structured_summary: sections
sections ==
    << Prompt("A: Abstract",
              "Provide a concise and clear summary of the document's key focus and purpose."),
       Nested(Methods,
         << Prompt("1. Research Question",
                   "What is the primary research question explicitly stated in the document?"),
            Prompt("2. Search Strategy",
                   "Summarize the methods used to identify and select studies, such as databases searched and keywords."),
            Nested(Criteria,
              << Prompt("Inclusion",
                        "List the specific criteria used to include studies in this review."),
                 Prompt("Exclusion",
                        "List the specific criteria used to exclude studies from this review.") >>),
            Prompt("5. Data Extraction",
                   "Describe the process and tools used for extracting data in this research."),
            Prompt("6. Data Synthesis",
                   "Explain the approach and methods used to synthesize the data extracted.") >>),
       Prompt("D: Results",
              "Summarize the primary findings and results of this review.") >>

RECURSIVE WalkLeavesFirst(_, _)
\* A faulty variant of Walk: at each level the prompts come before the nested dicts.
WalkLeavesFirst(items, prefix) ==
    LET own == SelectSeq(items, LAMBDA e : e.leaf)
        deep == SelectSeq(items, LAMBDA e : ~e.leaf)
        RECURSIVE Each(_)
        Each(es) ==
            IF es = <<>> THEN <<>>
            ELSE (IF Head(es).leaf
                  THEN << [path |-> Append(prefix, Head(es).key),
                           prompt |-> Head(es).prompt] >>
                  ELSE WalkLeavesFirst(Head(es).items, Append(prefix, Head(es).key)))
                 \o Each(Tail(es))
    IN  Each(own \o deep)

RECURSIVE Walk(_, _)
\* The leaves of a dict literal in the order the nested for-loops over
\* .items() reach them, each with its path and its prompt.
Walk(items, prefix) ==
    IF items = <<>> THEN <<>>
    ELSE LET h == Head(items)
         IN  (IF h.leaf
              THEN << [path |-> Append(prefix, h.key), prompt |-> h.prompt] >>
              ELSE Walk(h.items, Append(prefix, h.key)))
             \o Walk(Tail(items), prefix)

LeafOrder == Walk(sections, <<>>)

\* The Section Schema's leaf paths and its branch paths.
SchemaPaths == {LeafOrder[k].path : k \in 1..Len(LeafOrder)}

SchemaBranches == {<<Methods>>, <<Methods, Criteria>>}

RECURSIVE Paths(_)
\* The paths of a dict of nodes that end in a string or a list.
Paths(d) ==
    UNION {IF d[k].kind = "dict" THEN {<<k>> \o p : p \in Paths(d[k].kids)}
           ELSE {<<k>>} : k \in DOMAIN d}

RECURSIVE BranchPaths(_)
\* The paths of a dict of nodes that end in a dict.
BranchPaths(d) ==
    UNION {IF d[k].kind = "dict"
           THEN {<<k>>} \cup {<<k>> \o p : p \in BranchPaths(d[k].kids)}
           ELSE {} : k \in DOMAIN d}

\* The node at a path of a dict of nodes.
At(d, path) ==
    IF Len(path) = 1 THEN d[path[1]]
    ELSE IF Len(path) = 2 THEN d[path[1]].kids[path[2]]
    ELSE d[path[1]].kids[path[2]].kids[path[3]]

(***************************************************************************)
(* aggregate_reviews                                                       *)
(***************************************************************************)
Space == <<" ">>

RECURSIVE CollectTop(_, _)
\* lines 120, 131: one entry per review, "" when the review lacks the key
CollectTop(revs, key) ==
    IF revs = <<>> THEN <<>>
    ELSE <<Get(Head(revs), key, Str(<<>>)).val>> \o CollectTop(Tail(revs), key)

RECURSIVE CollectMethods(_, _)
\* lines 121, 130: one entry per review whose "B: Methods" holds the key
CollectMethods(revs, key) ==
    IF revs = <<>> THEN <<>>
    ELSE LET methods == Get(Head(revs), Methods, Dict(EmptyDict)).kids
         IN  (IF key \in DOMAIN methods THEN <<methods[key].val>> ELSE <<>>)
             \o CollectMethods(Tail(revs), key)

RECURSIVE CollectCriteria(_, _)
\* lines 122-128: one entry per review whose "B: Methods" holds the criteria
\* key, "" when the criteria dict lacks the leaf
CollectCriteria(revs, key) ==
    IF revs = <<>> THEN <<>>
    ELSE LET methods == Get(Head(revs), Methods, Dict(EmptyDict)).kids
         IN  (IF Criteria \in DOMAIN methods
              THEN <<Get(methods[Criteria].kids, key, Str(<<>>)).val>>
              ELSE <<>>)
             \o CollectCriteria(Tail(revs), key)

\* The list the collection loop (lines 119-131) leaves at a schema path.
Collected(revs, path) ==
    IF Len(path) = 1 THEN CollectTop(revs, path[1])
    ELSE IF Len(path) = 2 THEN CollectMethods(revs, path[2])
    ELSE CollectCriteria(revs, path[3])

\* The strings handed to remove_repeated_sentences by lines 134-145.
Joined(revs) == {join(Space, Collected(revs, p)) : p \in SchemaPaths}

RECURSIVE DedupeChoices(_)
\* One result of remove_repeated_sentences for each string it is called on:
\* within one process equal arguments give equal results.
DedupeChoices(J) ==
    IF J = {} THEN {[j \in {} |-> <<>>]}
    ELSE LET j == CHOOSE x \in J : TRUE
         IN  {[x \in DOMAIN f \cup {j} |-> IF x = j THEN r ELSE f[x]] :
                 f \in DedupeChoices(J \ {j}), r \in remove_repeated_sentences(j)}

\* A faulty variant of AggregatedLeaf: the list is left as it was collected.
AggregatedLeafUnjoined(revs, path, f) == List(Collected(revs, path))

\* lines 134-145 at one schema path: join with single spaces, deduplicate.
AggregatedLeaf(revs, path, f) == Str(f[join(Space, Collected(revs, path))])

\* A faulty variant of AggregatedWith: "B: Methods" holds only the keys some review
\* contributed to.
AggregatedWithSeen(revs, f) ==
    [k \in {"A: Abstract", Methods, "D: Results"} |->
        IF k = Methods
        THEN Dict([key \in {key \in {"1. Research Question", "2. Search Strategy", Criteria,
                                     "5. Data Extraction", "6. Data Synthesis"} :
                              key = Criteria \/ Collected(revs, <<Methods, key>>) # <<>>} |->
                IF key = Criteria
                THEN Dict([leaf \in {"Inclusion", "Exclusion"} |->
                            AggregatedLeaf(revs, <<Methods, Criteria, leaf>>, f)])
                ELSE AggregatedLeaf(revs, <<Methods, key>>, f)])
        ELSE AggregatedLeaf(revs, <<k>>, f)]

\* The tree aggregate_reviews returns when remove_repeated_sentences answers f.
AggregatedWith(revs, f) ==
    [k \in {"A: Abstract", Methods, "D: Results"} |->
        IF k = Methods
        THEN Dict([key \in {"1. Research Question", "2. Search Strategy", Criteria,
                            "5. Data Extraction", "6. Data Synthesis"} |->
                IF key = Criteria
                THEN Dict([leaf \in {"Inclusion", "Exclusion"} |->
                            AggregatedLeaf(revs, <<Methods, Criteria, leaf>>, f)])
                ELSE AggregatedLeaf(revs, <<Methods, key>>, f)])
        ELSE AggregatedLeaf(revs, <<k>>, f)]

\* aggregate_reviews(reviews): the trees the call can return.
aggregate_reviews(revs) ==
    {AggregatedWith(revs, f) : f \in DedupeChoices(Joined(revs))}

RECURSIVE Reverse(_)
Reverse(seq) == IF seq = <<>> THEN <<>> ELSE Reverse(Tail(seq)) \o <<Head(seq)>>

(***************************************************************************)
(* Inputs of aggregate_reviews: review trees of the schema's shape, and    *)
(* trees that lack some of its nodes.                                      *)
(***************************************************************************)
None == [kind |-> "none"]

ShortAbstract ==
    <<"S", "h", "o", "r", "t", " ", "a", "b", "s", "t", "r", "a", "c", "t", ".">>

SummaryPool == {<<>>, ShortAbstract, <<"b">>}

RECURSIVE Complete(_, _)
\* The tree of the shape of a dict literal of prompts with s at every leaf.
Complete(items, s) ==
    [k \in {items[n].key : n \in 1..Len(items)} |->
        LET e == CHOOSE e \in ToSet(items) : e.key = k
        IN  IF e.leaf THEN Str(s) ELSE Dict(Complete(e.items, s))]

RECURSIVE Prune(_, _, _)
\* The tree without the nodes whose paths are in gone.
Prune(d, prefix, gone) ==
    [k \in {k \in DOMAIN d : Append(prefix, k) \notin gone} |->
        IF d[k].kind = "dict"
        THEN Dict(Prune(d[k].kids, Append(prefix, k), gone))
        ELSE d[k]]

RECURSIVE SubsetsUpTo(_, _)
SubsetsUpTo(X, m) ==
    IF m = 0 THEN {{}}
    ELSE LET prev == SubsetsUpTo(X, m - 1)
         IN  prev \cup {g \cup {x} : g \in prev, x \in X}

\* n review trees: the k-th holds strs[k] at every leaf it has and lacks the
\* nodes gone names for it.
ReviewInputs(n, strs, gone) ==
    [k \in 1..n |-> Prune(Complete(sections, strs[k]), <<>>,
                          {nd \in SchemaPaths \cup SchemaBranches : <<k, nd>> \in gone})]

unusedBatch == <<uploaded_files, i, text, pos, review, sub_sections, nested_sections,
                 results, calls, report>>

IdleBatch ==
    /\ uploaded_files = <<>> /\ i = 0 /\ text = <<>> /\ pos = 0
    /\ review = None /\ sub_sections = None /\ nested_sections = None
    /\ results = <<>> /\ calls = <<>> /\ report = <<>>

IdleAgg == reviews = <<>> /\ aggregated = None /\ swapped = None

IdleDedupe == summary = <<>> /\ deduped = None /\ deduped2 = None

(***************************************************************************)
(* SpecAgg: aggregate_reviews applied to bounded inputs, and to a pair of  *)
(* reviews in the other order as well.                                     *)
(***************************************************************************)
InitAgg ==
    /\ pc = "agg_input"
    /\ \E n \in 0..MaxReviews :
         \E strs \in [1..n -> SummaryPool] :
           \E gone \in SubsetsUpTo((1..n) \X (SchemaPaths \cup SchemaBranches), MaxMissing) :
             reviews = ReviewInputs(n, strs, gone)
    /\ aggregated = None /\ swapped = None
    /\ IdleBatch /\ IdleDedupe

AggregateReviews ==
    /\ pc = "agg_input"
    /\ aggregated' \in aggregate_reviews(reviews)
    /\ pc' = "agg_done"
    /\ UNCHANGED <<unusedBatch, reviews, swapped, summary, deduped, deduped2>>

AggregateReversed ==
    /\ pc = "agg_done" /\ Len(reviews) = 2
    /\ swapped' \in aggregate_reviews(Reverse(reviews))
    /\ pc' = "agg_both"
    /\ UNCHANGED <<unusedBatch, reviews, aggregated, summary, deduped, deduped2>>

NextAgg == AggregateReviews \/ AggregateReversed

SpecAgg == InitAgg /\ [][NextAgg]_vars

(***************************************************************************)
(* SpecDedupe: remove_repeated_sentences applied to bounded strings, and   *)
(* to its own result.                                                      *)
(***************************************************************************)
InitDedupe ==
    /\ pc = "dedupe_input"
    /\ \E n \in 0..MaxLen : summary \in [1..n -> Alphabet]
    /\ deduped = None /\ deduped2 = None
    /\ IdleBatch /\ IdleAgg

Dedupe ==
    /\ pc = "dedupe_input"
    /\ deduped' \in remove_repeated_sentences(summary)
    /\ pc' = "dedupe_once"
    /\ UNCHANGED <<unusedBatch, reviews, aggregated, swapped, summary, deduped2>>

DedupeAgain ==
    /\ pc = "dedupe_once"
    /\ deduped2' \in remove_repeated_sentences(deduped)
    /\ pc' = "dedupe_twice"
    /\ UNCHANGED <<unusedBatch, reviews, aggregated, swapped, summary, deduped>>

NextDedupe == Dedupe \/ DedupeAgain

SpecDedupe == InitDedupe /\ [][NextDedupe]_vars

(***************************************************************************)
(* The per-document steps: extract_text_from_pdf, clean_text,              *)
(* summarize_text and structured_summary.                                  *)
(***************************************************************************)
\* The 29 characters str.isspace() holds for, which text.split() separates
\* on.  A character that a string literal here cannot hold is written as its
\* code point; it is one element of a text like any other character.
Whitespace ==
    { "\t", "\n", "U+000B", "\f", "\r",
      "U+001C", "U+001D", "U+001E", "U+001F",
      " ", "U+0085", "U+00A0", "U+1680",
      "U+2000", "U+2001", "U+2002", "U+2003", "U+2004", "U+2005",
      "U+2006", "U+2007", "U+2008", "U+2009", "U+200A",
      "U+2028", "U+2029", "U+202F", "U+205F", "U+3000" }

RECURSIVE Words(_, _)
\* text.split(): the maximal runs of non-whitespace characters, in order
\* (cur is the run being read).
Words(s, cur) ==
    IF s = <<>> THEN (IF cur = <<>> THEN <<>> ELSE <<cur>>)
    ELSE IF Head(s) \in Whitespace
         THEN (IF cur = <<>> THEN <<>> ELSE <<cur>>) \o Words(Tail(s), <<>>)
         ELSE Words(Tail(s), Append(cur, Head(s)))

\* clean_text(text)
clean_text(s) == join(Space, Words(s, <<>>))

RECURSIVE Concat(_)
\* extract_text_from_pdf: text += page.extract_text() over reader.pages
Concat(pages) == IF pages = <<>> THEN <<>> ELSE Head(pages) \o Concat(Tail(pages))

\* The uploaded PDFs of the model, each the texts of its pages.
Pdfs ==
    { << <<"S", "h", "o", "r", "t", "\r", "\n">>,
         <<"a", "b", "s", "t", "r", "a", "c", "t", ".", "\f">> >>,
      << <<"U+00A0", " ", "b", "\t", "U+2028">> >> }

\* The summarization pipeline, a deterministic black box (do_sample=False):
\* the model's stand-in answers with the text that follows the prompt line.
summarizer(input) == input.text

\* summarize_text(text, prompt) when the pipeline does not raise
summarize_text(t, prompt) == summarizer([prompt |-> prompt, text |-> t])

RECURSIVE Summarized(_, _)
\* The review structured_summary(text) returns when no call raises.
Summarized(items, t) ==
    [k \in {items[n].key : n \in 1..Len(items)} |->
        LET e == CHOOSE e \in ToSet(items) : e.key = k
        IN  IF e.leaf THEN Str(summarize_text(t, e.prompt))
            ELSE Dict(Summarized(e.items, t))]

structured_summary(t) == Summarized(sections, t)

IsPrefix(q, p) == Len(q) <= Len(p) /\ SubSeq(p, 1, Len(q)) = q

\* The walk is at the first (last) leaf of the dict literal at prefix q.
FirstUnder(q, n) == n = 1 \/ ~IsPrefix(q, LeafOrder[n - 1].path)

LastUnder(q, n) == n = Len(LeafOrder) \/ ~IsPrefix(q, LeafOrder[n + 1].path)

\* nested_sections after the assignment of line 91 (line 88 starts it empty).
NestedAfter(nested, n, r) ==
    LET p == LeafOrder[n].path
    IN  IF Len(p) < 3 THEN nested
        ELSE Put(IF FirstUnder(SubSeq(p, 1, 2), n) THEN EmptyDict ELSE nested,
                 p[3], Str(r))

\* A faulty variant of SubAfter: a nested leaf is stored in sub_sections itself.
SubAfterFlat(sub, nested, n, r) ==
    LET p == LeafOrder[n].path
        sub0 == IF FirstUnder(SubSeq(p, 1, 1), n) THEN EmptyDict ELSE sub
    IN  IF Len(p) = 1 THEN sub
        ELSE Put(sub0, p[Len(p)], Str(r))

\* sub_sections after the assignments of lines 92 and 95 (line 85 starts it
\* empty).
SubAfter(sub, nested, n, r) ==
    LET p == LeafOrder[n].path
        sub0 == IF FirstUnder(SubSeq(p, 1, 1), n) THEN EmptyDict ELSE sub
    IN  IF Len(p) = 1 THEN sub
        ELSE IF Len(p) = 2 THEN Put(sub0, p[2], Str(r))
        ELSE IF LastUnder(SubSeq(p, 1, 2), n)
             THEN Put(sub0, p[2], Dict(NestedAfter(nested, n, r)))
             ELSE sub0

\* review after the assignments of lines 96 and 99.
ReviewAfter(rev, sub, nested, n, r) ==
    LET p == LeafOrder[n].path
    IN  IF Len(p) = 1 THEN Put(rev, p[1], Str(r))
        ELSE IF LastUnder(SubSeq(p, 1, 1), n)
             THEN Put(rev, p[1], Dict(SubAfter(sub, nested, n, r)))
             ELSE rev

\* A faulty variant of AfterError: an exception ends the batch.
AfterErrorAbort(n) == Len(uploaded_files)

\* lines 162, 170-171: the except clause ends the iteration of document
\* n + 1 and the for-loop goes on with the next file.
AfterError(n) == n + 1

\* A faulty variant of ResultsAfterError: the partial review is kept.
ResultsAfterErrorPartial(res, partial) == Append(res, partial)

\* lines 167-168, 170: the exception leaves structured_summary before line
\* 168 appends, so the partial review is dropped with the call's frame.
ResultsAfterError(res, partial) == res

(***************************************************************************)
(* Spec: the "Generate Reviews" handler, one step per call of a black box  *)
(* (the PDF reader, the summarization pipeline).                           *)
(***************************************************************************)
Said(kind, doc) == [kind |-> kind, doc |-> doc]

Init ==
    /\ pc = "idle"
    /\ \E n \in 0..MaxDocs : uploaded_files \in [1..n -> Pdfs]
    /\ i = 0 /\ text = <<>> /\ pos = 0
    /\ review = None /\ sub_sections = None /\ nested_sections = None
    /\ results = <<>> /\ calls = <<>> /\ report = <<>>
    /\ IdleAgg /\ IdleDedupe

unusedAgg == <<swapped, summary, deduped, deduped2>>

walk == <<text, pos, review, sub_sections, nested_sections>>

\* line 191: the button is pressed with nothing uploaded
NoPdfs ==
    /\ pc = "idle" /\ uploaded_files = <<>>
    /\ report' = Append(report, Said("error", 0))
    /\ pc' = "done"
    /\ UNCHANGED <<uploaded_files, i, walk, results, calls, reviews, aggregated, unusedAgg>>

\* lines 156-162: the button is pressed, the loop starts
Generate ==
    /\ pc = "idle" /\ uploaded_files # <<>>
    /\ results' = <<>> /\ i' = 0
    /\ pc' = "loop"
    /\ UNCHANGED <<uploaded_files, walk, calls, report, reviews, aggregated, unusedAgg>>

\* lines 164-167 up to the first call of the pipeline; lines 170-171 when the
\* reader raises
Extract ==
    /\ pc = "loop" /\ i < Len(uploaded_files)
    /\ \E readable \in BOOLEAN :
         IF readable
         THEN /\ text' = clean_text(Concat(uploaded_files[i + 1]))
              /\ review' = EmptyDict /\ pos' = 1
              /\ report' = Append(report, Said("processing", i + 1))
              /\ pc' = "walk"
              /\ UNCHANGED <<i, sub_sections, nested_sections>>
         ELSE /\ report' = report \o <<Said("processing", i + 1), Said("error", i + 1)>>
              /\ i' = AfterError(i)
              /\ UNCHANGED <<pc, walk>>
    /\ UNCHANGED <<uploaded_files, results, calls, reviews, aggregated, unusedAgg>>

\* One turn of the loops of lines 83-99: a call of summarize_text and the
\* assignments that follow it; line 100 and lines 168-169 after the last
\* leaf; lines 58-59 and 170-171 when the pipeline raises.
Summarize ==
    /\ pc = "walk"
    /\ \E answered \in BOOLEAN :
         /\ calls' = Append(calls, [doc |-> i + 1, prompt |-> LeafOrder[pos].prompt,
                                    ok |-> answered])
         /\ IF answered
            THEN LET r == summarize_text(text, LeafOrder[pos].prompt)
                     done == ReviewAfter(review, sub_sections, nested_sections, pos, r)
                 IN  IF pos < Len(LeafOrder)
                     THEN /\ nested_sections' = NestedAfter(nested_sections, pos, r)
                          /\ sub_sections' = SubAfter(sub_sections, nested_sections, pos, r)
                          /\ review' = done
                          /\ pos' = pos + 1
                          /\ UNCHANGED <<pc, i, text, results, report>>
                     ELSE /\ results' = Append(results, done)
                          /\ report' = Append(report, Said("success", i + 1))
                          /\ i' = i + 1 /\ pc' = "loop"
                          /\ text' = <<>> /\ pos' = 0 /\ review' = None
                          /\ sub_sections' = None /\ nested_sections' = None
            ELSE /\ report' = Append(report, Said("error", i + 1))
                 /\ i' = AfterError(i) /\ pc' = "loop"
                 /\ text' = <<>> /\ pos' = 0 /\ review' = None
                 /\ sub_sections' = None /\ nested_sections' = None
                 /\ results' = ResultsAfterError(results, review)
    /\ UNCHANGED <<uploaded_files, reviews, aggregated, unusedAgg>>

\* lines 174-189: the loop is over, the results are aggregated and shown
Aggregate ==
    /\ pc = "loop" /\ i = Len(uploaded_files)
    /\ reviews' = results
    /\ aggregated' \in aggregate_reviews(results)
    /\ report' = Append(report, Said("saved", 0))
    /\ pc' = "done"
    /\ UNCHANGED <<uploaded_files, i, walk, results, calls, unusedAgg>>

Next == NoPdfs \/ Generate \/ Extract \/ Summarize \/ Aggregate

Spec == Init /\ [][Next]_vars

(***************************************************************************)
(* Properties.                                                             *)
(***************************************************************************)
Abstract == "A: Abstract"

\* The leaf paths the Section Schema is said to have, in declaration order.
StatedOrder ==
    << <<"A: Abstract">>,
       <<"B: Methods", "1. Research Question">>,
       <<"B: Methods", "2. Search Strategy">>,
       <<"B: Methods", "3. Inclusion and Exclusion Criteria", "Inclusion">>,
       <<"B: Methods", "3. Inclusion and Exclusion Criteria", "Exclusion">>,
       <<"B: Methods", "5. Data Extraction">>,
       <<"B: Methods", "6. Data Synthesis">>,
       <<"D: Results">> >>

StatedPaths == ToSet(StatedOrder)

StatedBranches ==
    {<<"B: Methods">>, <<"B: Methods", "3. Inclusion and Exclusion Criteria">>}

\* A tree with exactly the stated paths: strings at the leaves, dicts above.
StatedShape(d) ==
    /\ Paths(d) = StatedPaths
    /\ BranchPaths(d) = StatedBranches
    /\ \A p \in StatedPaths : At(d, p).kind = "str"

Returned == pc \in {"agg_done", "agg_both"}

\* C1: when exactly two reviews both hold "Short abstract." at "A: Abstract",
\* the aggregated "A: Abstract" is exactly "Short abstract.".
C1_ShortAbstractOnce ==
    (/\ Returned
     /\ Len(reviews) = 2
     /\ \A n \in 1..2 : Abstract \in DOMAIN reviews[n]
                        /\ reviews[n][Abstract] = Str(ShortAbstract))
    => aggregated[Abstract] = Str(ShortAbstract)

\* C2: for two review trees of the schema's shape, aggregating them in either
\* order gives the same set of ". "-delimited sentences at every leaf path.
C2_OrderIndependent ==
    (/\ pc = "agg_both"
     /\ Len(reviews) = 2
     /\ StatedShape(reviews[1]) /\ StatedShape(reviews[2]))
    => \A p \in StatedPaths :
          Sentences(At(aggregated, p).val) = Sentences(At(swapped, p).val)

Succeeded(n) == \E k \in 1..Len(report) : report[k] = Said("success", n)

Failed(n) == \E k \in 1..Len(report) : report[k] = Said("error", n)

Visited(n) == \E k \in 1..Len(report) : report[k] = Said("processing", n)

RECURSIVE SucceededReviews(_)
\* The reviews of the documents from the n-th on that succeeded, in upload
\* order, each the complete review of its own text.
SucceededReviews(n) ==
    IF n > Len(uploaded_files) THEN <<>>
    ELSE (IF Succeeded(n)
          THEN <<structured_summary(clean_text(Concat(uploaded_files[n])))>>
          ELSE <<>>)
         \o SucceededReviews(n + 1)

\* C3: whatever documents fail, the loop visits every document, and the list
\* passed to aggregate_reviews is exactly the reviews of the documents that
\* succeeded, in upload order.
C3_FailureContained ==
    (pc = "done" /\ uploaded_files # <<>>)
    => /\ \A n \in 1..Len(uploaded_files) :
             Visited(n) /\ (Succeeded(n) # Failed(n))
       /\ reviews = SucceededReviews(1)
       /\ aggregated \in aggregate_reviews(SucceededReviews(1))

C3_Witness ==
    /\ pc = "done" /\ Len(uploaded_files) = 3
    /\ Succeeded(1) /\ Failed(2) /\ Succeeded(3)
    /\ \E k \in 1..Len(calls) : calls[k].doc = 2 /\ ~calls[k].ok
    /\ Len(reviews) = 2

\* C4: every tree structured_summary returns has exactly the schema's 8 leaf
\* paths, a string at each and a dict at each branch; while it is built no
\* path outside the schema appears.
C4_ShapePreserved ==
    /\ \A k \in 1..Len(results) : StatedShape(results[k])
    /\ pc = "walk" => Paths(review) \subseteq StatedPaths

C4_Witness == pc = "done" /\ Len(results) = 2

\* C5: aggregate_reviews([]) returns a tree of the schema's shape whose every
\* leaf is the empty string.
C5_EmptyInput ==
    (reviews = <<>>)
    => /\ pc = "agg_input" => aggregate_reviews(reviews) # {}
       /\ Returned => /\ StatedShape(aggregated)
                      /\ \A p \in StatedPaths : At(aggregated, p) = Str(<<>>)

C5_Witness == pc = "agg_done" /\ reviews = <<>>

\* The entry of a review at a path: its value there, "" when it lacks the path.
Entry(rev, path) == IF path \in Paths(rev) THEN At(rev, path).val ELSE <<>>

\* C6: at every schema leaf path the aggregated leaf is the deduplicator
\* applied to the single-space join of one entry per review, in review order,
\* a review that lacks the path contributing the empty string.
C6_LeafIsDedupedJoin ==
    Returned
    => \A p \in StatedPaths :
          At(aggregated, p).val \in
            remove_repeated_sentences(
              join(Space, [n \in 1..Len(reviews) |-> Entry(reviews[n], p)]))

\* C7: for review trees that lack any of the schema's branches or leaves,
\* aggregate_reviews returns, and returns a tree with exactly the schema's
\* paths and a string at every leaf.
C7_AggregatedShape ==
    /\ pc = "agg_input" => aggregate_reviews(reviews) # {}
    /\ Returned => StatedShape(aggregated)

C7_Witness ==
    /\ pc = "agg_done" /\ Len(reviews) = 2
    /\ Methods \notin DOMAIN reviews[1]
    /\ Abstract \notin DOMAIN reviews[2]
    /\ StatedShape(aggregated)

\* C8 as stated: deduplicating the deduplicator's result gives back the same
\* string.
C8_SameString == pc = "dedupe_twice" => deduped2 = deduped

\* C8 as amended: the deduplicator's result has exactly the ". "-delimited
\* sentences of its argument, in whatever order they were rejoined, so
\* deduplicating again keeps that set.
C8_SameSentences ==
    /\ pc \in {"dedupe_once", "dedupe_twice"}
         => Sentences(deduped) = Sentences(summary)
    /\ pc = "dedupe_twice"
         => /\ Sentences(deduped2) = Sentences(deduped)
            /\ remove_repeated_sentences(deduped) = remove_repeated_sentences(summary)

C8_Witness ==
    /\ pc = "dedupe_twice"
    /\ Cardinality(Sentences(summary)) = 2
    /\ Len(split(summary)) = 3
    /\ deduped2 # deduped

Raised == Len(calls') = Len(calls) + 1 /\ ~calls'[Len(calls')].ok

\* C9: a step in which summarization fails leaves results as they were and
\* drops the document's partial review; results only ever hold complete
\* reviews, one per document that succeeded, and only they are aggregated.
C9_WholeDocumentFails ==
    /\ [](/\ \A k \in 1..Len(results) : StatedShape(results[k])
          /\ Len(results) = Cardinality({n \in 1..Len(uploaded_files) : Succeeded(n)})
          /\ (pc = "done" /\ uploaded_files # <<>>)
                => aggregated \in aggregate_reviews(results))
    /\ [][Raised => /\ results' = results
                    /\ review' = None /\ sub_sections' = None
                    /\ nested_sections' = None]_vars

C9_Witness ==
    /\ pc = "done" /\ Len(uploaded_files) = 2
    /\ \E k \in 2..Len(calls) :
          calls[k].doc = 1 /\ ~calls[k].ok /\ calls[k - 1].doc = 1 /\ calls[k - 1].ok
    /\ Succeeded(2) /\ Len(results) = 1

PromptAt(path) == (CHOOSE e \in ToSet(LeafOrder) : e.path = path).prompt

\* C10: the summarizer is invoked on a document's leaf prompts in schema
\* declaration order, once each; a failed invocation is the document's last;
\* the next document's invocations start only after.
C10_CallOrder ==
    /\ calls # <<>> => calls[1].prompt = PromptAt(StatedOrder[1])
    /\ \A k \in 1..(Len(calls) - 1) :
          LET a == calls[k]
              b == calls[k + 1]
              at == CHOOSE n \in 1..Len(StatedOrder) : PromptAt(StatedOrder[n]) = a.prompt
          IN  IF a.ok /\ at < Len(StatedOrder)
              THEN b.doc = a.doc /\ b.prompt = PromptAt(StatedOrder[at + 1])
              ELSE b.doc > a.doc /\ b.prompt = PromptAt(StatedOrder[1])
    /\ pc = "walk" =>
          /\ \A k \in 1..Len(calls) : calls[k].doc <= i + 1
          /\ Cardinality({k \in 1..Len(calls) : calls[k].doc = i + 1}) = pos - 1

C10_Witness ==
    /\ pc = "done" /\ Len(uploaded_files) = 2
    /\ Len(calls) = Len(StatedOrder) + 4
    /\ Succeeded(1) /\ Failed(2)

====
